---- MODULE Spec2Model ----
(***************************************************************************)
(* Model of the file-access layer of ha-mcp-file-server                    *)
(* (src/src/file_handler.py): FileHandler._validate_path, list_directory,  *)
(* read_file, write_file, create_directory, delete_path and search_files,  *)
(* acting on a filesystem that is a tree of directories, regular files     *)
(* and symbolic links; and of the JSON-RPC handler that calls it           *)
(* (src/src/mcp_server.py: handle_mcp_request, execute_ha_cli_command).    *)
(*                                                                         *)
(* Spec is the behaviour of FileHandler under calls made one after the     *)
(* other; McpSpec that of handle_mcp_request; GatherSpec follows the scans *)
(* of one search_files call and WriteSpec the steps of two write_file      *)
(* calls that run at the same time.                                        *)
(*                                                                         *)
(* A path is a sequence of component names, <<>> being "/".  A file's      *)
(* content is a sequence of encoded characters (tokens): "E2" is one       *)
(* character that UTF-8 encodes in two bytes, "XX" is a byte that is no    *)
(* valid UTF-8, "LF" "CR" "SP" are line feed, carriage return and space.   *)
(***************************************************************************)
EXTENDS Integers, Sequences, FiniteSets, TLC

VARIABLES
    fs,            \* the filesystem: path -> node
    pre,           \* the filesystem as it was when the last call started
    read_only,     \* FileHandler.read_only
    allowed_dirs,  \* FileHandler.allowed_dirs
    calls,         \* the number of calls made
    last,          \* the last call: operation, arguments, outcome
    env,           \* the server's environment: ENABLE_HA_CLI, SUPERVISOR_TOKEN
    request,       \* the last JSON-RPC request handled
    response,      \* what handle_mcp_request made of it
    ran,           \* what the last request made the server execute
    scans,         \* the file scans of the search_files call in progress
    writers,       \* the write_file calls in progress
    batch          \* the POST /api/mcp request in progress: body, position, responses, reply

vars == <<fs, pre, read_only, allowed_dirs, calls, last,
          env, request, response, ran, scans, writers, batch>>

----------------------------------------------------------------------------
(* Bounds of the model *)

\* max_file_size_bytes of the policy (max_file_size_mb * 1024 * 1024 in the code)
MaxFileSizeBytes == 11

\* number of tool calls in one behaviour
MaxCalls == 2

\* the worker limit of a search: the largest limit that the tree under /r,
\* which has 7 files that a scan opens, can tell from no limit
WorkerLimit == 6

\* characters of a matching line that are returned (100 in the code, scaled
\* with the size limit so that a file within the limit has a longer line)
ExcerptLen == 3

\* number of elements of a batch body
MaxBatch == 2

----------------------------------------------------------------------------
(* Sequences *)

Take(s, n) == IF n <= 0 THEN <<>> ELSE SubSeq(s, 1, IF n < Len(s) THEN n ELSE Len(s))

\* Python's s[:n] for any integer n: a negative n counts from the end
PySlice(s, n) == IF n >= 0 THEN Take(s, n) ELSE Take(s, Len(s) + n)

IsPrefix(p, q) == Len(p) <= Len(q) /\ SubSeq(q, 1, Len(p)) = p

RECURSIVE Flatten(_)
Flatten(ss) == IF ss = <<>> THEN <<>> ELSE Head(ss) \o Flatten(Tail(ss))

\* p in s, for Python strings
Contains(s, p) == \E i \in 0..(Len(s) - Len(p)) : SubSeq(s, i + 1, i + Len(p)) = p

----------------------------------------------------------------------------
(* The filesystem *)

Dir == [kind |-> "dir", content |-> <<>>, abs |-> TRUE, target |-> <<>>]
File(c) == [kind |-> "file", content |-> c, abs |-> TRUE, target |-> <<>>]
\* a symbolic link to an absolute (abs) or relative target
Link(a, t) == [kind |-> "link", content |-> <<>>, abs |-> a, target |-> t]

\* the names a directory entry can have, in ascending (string) order
NameOrder == <<"b", "c", "d", "e", "f", "g", "h", "j", "k", "l", "n", "o", "r", "rx", "s", "u", "w">>

\* the same names in the order in which the directory scan returns them, which
\* is fixed for a directory snapshot and is not the sorted order
ScanOrder == <<"f", "d", "b", "c", "e", "g", "h", "j", "k", "l", "n", "o", "r", "rx", "s", "u", "w">>

Parent(p) == IF p = <<>> THEN <<>> ELSE SubSeq(p, 1, Len(p) - 1)

IsLink(f, p) == p \in DOMAIN f /\ f[p].kind = "link"

\* os.path.realpath of rest, taken from the resolved directory path: ".." pops a
\* component, a symbolic link is replaced by its resolved target, a component that
\* does not exist is kept as it is (non-strict)
RECURSIVE JoinRealPath(_, _, _)
JoinRealPath(f, path, rest) ==
    IF rest = <<>> THEN path
    ELSE LET name == Head(rest)
             tl == Tail(rest)
             newpath == Append(path, name)
         IN  IF name = "." THEN JoinRealPath(f, path, tl)
             ELSE IF name = ".." THEN JoinRealPath(f, Parent(path), tl)
             ELSE IF IsLink(f, newpath)
                  THEN JoinRealPath(f,
                          JoinRealPath(f, IF f[newpath].abs THEN <<>> ELSE path,
                                       f[newpath].target),
                          tl)
                  ELSE JoinRealPath(f, newpath, tl)

\* the working directory of the server process
Cwd == <<"o">>

\* a requested path: absolute or relative to the working directory
Req(a, c) == [abs |-> a, comps |-> c]

\* Path(path).resolve()
Resolve(f, path) == JoinRealPath(f, <<>>, IF path.abs THEN path.comps ELSE Cwd \o path.comps)

\* the stat of a path, following symbolic links: the node, or "none"
Stat(f, p) == LET q == JoinRealPath(f, <<>>, p)
              IN  IF q \in DOMAIN f THEN f[q] ELSE [kind |-> "none"]

IsFile(f, p) == Stat(f, p).kind = "file"
IsDir(f, p) == Stat(f, p).kind = "dir"

\* the entries of directory p, in scan order
Children(f, p) ==
    LET names == SelectSeq(ScanOrder, LAMBDA n : Append(p, n) \in DOMAIN f)
    IN  [i \in 1..Len(names) |-> Append(p, names[i])]

----------------------------------------------------------------------------
(* Text: encoding, decoding, lines *)

\* the number of bytes of one encoded character
ByteLen(c) == IF c = "E2" THEN 2 ELSE 1

RECURSIVE EncodedSize(_)
EncodedSize(s) == IF s = <<>> THEN 0 ELSE ByteLen(Head(s)) + EncodedSize(Tail(s))

\* os.linesep
LineSep == <<"LF">>

\* what open(.., 'w', encoding='utf-8').write(content) stores: each "\n" becomes
\* the line separator, every other character its encoding
TextWrite(content) ==
    Flatten([i \in 1..Len(content) |->
                IF content[i] = "LF" THEN LineSep ELSE <<content[i]>>])

\* the bytes are valid UTF-8
Decodable(bytes) == \A i \in 1..Len(bytes) : bytes[i] # "XX"

\* universal newlines of a text-mode read: "\r\n" and "\r" become "\n"
RECURSIVE UniversalNewlines(_)
UniversalNewlines(s) ==
    IF s = <<>> THEN <<>>
    ELSE IF Head(s) = "CR"
         THEN IF Len(s) >= 2 /\ s[2] = "LF"
              THEN <<"LF">> \o UniversalNewlines(Tail(Tail(s)))
              ELSE <<"LF">> \o UniversalNewlines(Tail(s))
         ELSE <<Head(s)>> \o UniversalNewlines(Tail(s))

\* what open(.., 'r', encoding='utf-8').read() returns for decodable bytes
TextRead(bytes) == UniversalNewlines(bytes)

LowerChar(c) == IF c = "A" THEN "a" ELSE c

\* str.lower()
Lower(s) == [i \in 1..Len(s) |-> LowerChar(s[i])]

FirstLF(s) == IF \E i \in 1..Len(s) : s[i] = "LF"
              THEN CHOOSE i \in 1..Len(s) : s[i] = "LF" /\ \A j \in 1..(i - 1) : s[j] # "LF"
              ELSE 0

RECURSIVE SplitLF(_)
SplitLF(s) ==
    IF s = <<>> THEN <<>>
    ELSE LET i == FirstLF(s)
         IN  IF i = 0 THEN <<s>>
             ELSE <<SubSeq(s, 1, i - 1)>> \o SplitLF(SubSeq(s, i + 1, Len(s)))

\* str.splitlines(): the lines without their line breaks ("\n", "\r\n", "\r"); a
\* final line break opens no further line
SplitLines(s) == SplitLF(UniversalNewlines(s))

IsSpace(c) == c \in {"SP", "LF", "CR"}

RECURSIVE LStrip(_)
LStrip(s) == IF s # <<>> /\ IsSpace(Head(s)) THEN LStrip(Tail(s)) ELSE s

RECURSIVE RStrip(_)
RStrip(s) == IF s # <<>> /\ IsSpace(s[Len(s)]) THEN RStrip(SubSeq(s, 1, Len(s) - 1)) ELSE s

\* str.strip()
Strip(s) == RStrip(LStrip(s))

----------------------------------------------------------------------------
(* FileHandler *)

\* FileHandler.__init__: the configured directories, resolved
InitAllowedDirs(f, dirs) == [i \in 1..Len(dirs) |-> Resolve(f, dirs[i])]

\* the string m is a prefix of the string n, for the names of the model
NameStartsWith(n, m) == n = m \/ (m = "r" /\ n = "rx")

\* a containment test on the text of the paths: str(target).startswith(str(dir))
RelativeToByText(target, dir) ==
    \/ dir = <<>>
    \/ /\ Len(dir) <= Len(target)
       /\ SubSeq(target, 1, Len(dir) - 1) = SubSeq(dir, 1, Len(dir) - 1)
       /\ NameStartsWith(target[Len(dir)], dir[Len(dir)])

\* target_path.relative_to(allowed_dir) does not raise: component-wise prefix
RelativeTo(target, dir) == IsPrefix(dir, target)

Ok(p) == [ok |-> TRUE, path |-> p]
Violation == [ok |-> FALSE, path |-> <<>>]

\* a validation that tests the path as given, before its links are resolved
ValidatePathUnresolved(f, roots, path) ==
    LET given == IF path.abs THEN path.comps ELSE Cwd \o path.comps
    IN  IF \E i \in 1..Len(roots) : IsPrefix(roots[i], given)
        THEN Ok(Resolve(f, path))
        ELSE Violation

\* a validation that returns the path relative to the allowed directory
ValidatePathRelative(f, roots, path) ==
    LET target_path == Resolve(f, path)
    IN  IF \E i \in 1..Len(roots) : IsPrefix(roots[i], target_path)
        THEN LET i == CHOOSE i \in 1..Len(roots) : IsPrefix(roots[i], target_path)
             IN  Ok(SubSeq(target_path, Len(roots[i]) + 1, Len(target_path)))
        ELSE Violation

\* FileHandler._validate_path
ValidatePath(f, roots, path) ==
    LET target_path == Resolve(f, path)
    IN  IF \E i \in 1..Len(roots) : RelativeTo(target_path, roots[i])
        THEN Ok(target_path)
        ELSE Violation

\* the outcome of an operation: its error ("ok" for none), the filesystem after
\* it, and what it returns
Out(e, f, t, es) == [err |-> e, fs |-> f, text |-> t, entries |-> es]
Fail(e, f) == Out(e, f, <<>>, <<>>)

\* Path.mkdir(parents=True, exist_ok=True) on a resolved path
RECURSIVE Mkdir(_, _)
Mkdir(f, d) ==
    IF d \in DOMAIN f
    THEN [ok |-> f[d].kind = "dir", fs |-> f]
    ELSE LET up == Mkdir(f, Parent(d))
         IN  IF up.ok
             THEN [ok |-> TRUE, fs |-> (d :> Dir) @@ up.fs]
             ELSE [ok |-> FALSE, fs |-> f]

HasEntries(f, p) == \E q \in DOMAIN f : q # p /\ Parent(q) = p

Remove(f, p) == [q \in DOMAIN f \ {p} |-> f[q]]

\* FileHandler.read_file
ReadFile(f, roots, path) ==
    LET v == ValidatePath(f, roots, path)
        file_path == v.path
        bytes == Stat(f, file_path).content
    IN  IF ~v.ok THEN Fail("PathViolation", f)
        ELSE IF Stat(f, file_path).kind = "none" THEN Fail("NotFound", f)
        ELSE IF ~IsFile(f, file_path) THEN Fail("NotAFile", f)
        ELSE IF EncodedSize(bytes) > MaxFileSizeBytes THEN Fail("TooLarge", f)
        ELSE IF Decodable(bytes) THEN Out("ok", f, TextRead(bytes), <<>>)
        ELSE Out("ok", f, <<"[Binary file, ", ToString(EncodedSize(bytes)), " bytes]">>, <<>>)

\* a write_file without the read-only check
WriteFileAnyMode(f, ro, roots, path, content) ==
    LET target_path == Resolve(f, path)
        made == Mkdir(f, Parent(target_path))
    IN  IF ~\E i \in 1..Len(roots) : IsPrefix(roots[i], target_path)
        THEN Fail("PathViolation", f)
        ELSE IF EncodedSize(content) > MaxFileSizeBytes THEN Fail("TooLarge", f)
        ELSE IF ~made.ok THEN Fail("OSError", f)
        ELSE IF IsDir(made.fs, target_path) THEN Fail("OSError", made.fs)
        ELSE Out("ok", (target_path :> File(TextWrite(content))) @@ made.fs, <<>>, <<>>)

\* a write_file that checks the size only after opening the file for writing
WriteFileLateCheck(f, ro, roots, path, content) ==
    LET target_path == Resolve(f, path)
        made == Mkdir(f, Parent(target_path))
        opened == (target_path :> File(<<>>)) @@ made.fs
    IN  IF ro THEN Fail("ReadOnly", f)
        ELSE IF ~\E i \in 1..Len(roots) : IsPrefix(roots[i], target_path)
             THEN Fail("PathViolation", f)
        ELSE IF ~made.ok THEN Fail("OSError", f)
        ELSE IF IsDir(made.fs, target_path) THEN Fail("OSError", made.fs)
        ELSE IF EncodedSize(content) > MaxFileSizeBytes THEN Fail("TooLarge", opened)
        ELSE Out("ok", (target_path :> File(TextWrite(content))) @@ made.fs, <<>>, <<>>)

\* FileHandler.write_file
WriteFile(f, ro, roots, path, content) ==
    LET v == ValidatePath(f, roots, path)
        file_path == v.path
        made == Mkdir(f, Parent(file_path))
    IN  IF ro THEN Fail("ReadOnly", f)
        ELSE IF ~v.ok THEN Fail("PathViolation", f)
        ELSE IF EncodedSize(content) > MaxFileSizeBytes THEN Fail("TooLarge", f)
        ELSE IF ~made.ok THEN Fail("OSError", f)
        ELSE IF IsDir(made.fs, file_path) THEN Fail("OSError", made.fs)
        ELSE Out("ok", (file_path :> File(TextWrite(content))) @@ made.fs, <<>>, <<>>)

\* a create_directory that takes an existing directory for created
CreateDirectoryExistOk(f, ro, roots, path) ==
    LET target_path == Resolve(f, path)
        made == Mkdir(f, target_path)
    IN  IF ro THEN Fail("ReadOnly", f)
        ELSE IF ~\E i \in 1..Len(roots) : IsPrefix(roots[i], target_path)
             THEN Fail("PathViolation", f)
        ELSE IF ~made.ok THEN Fail("OSError", f)
        ELSE Out("ok", made.fs, <<>>, <<>>)

\* FileHandler.create_directory
CreateDirectory(f, ro, roots, path) ==
    LET v == ValidatePath(f, roots, path)
        dir_path == v.path
        made == Mkdir(f, dir_path)
    IN  IF ro THEN Fail("ReadOnly", f)
        ELSE IF ~v.ok THEN Fail("PathViolation", f)
        ELSE IF Stat(f, dir_path).kind # "none" THEN Fail("AlreadyExists", f)
        ELSE IF ~made.ok THEN Fail("OSError", f)
        ELSE Out("ok", made.fs, <<>>, <<>>)

\* a delete_path that removes a directory with all that is in it
DeletePathRecursive(f, ro, roots, path) ==
    LET target_path == Resolve(f, path)
    IN  IF ro THEN Fail("ReadOnly", f)
        ELSE IF ~\E i \in 1..Len(roots) : IsPrefix(roots[i], target_path)
             THEN Fail("PathViolation", f)
        ELSE IF Stat(f, target_path).kind = "none" THEN Fail("NotFound", f)
        ELSE Out("ok", [q \in {q \in DOMAIN f : ~IsPrefix(target_path, q)} |-> f[q]],
                 <<>>, <<>>)

\* FileHandler.delete_path
DeletePath(f, ro, roots, path) ==
    LET v == ValidatePath(f, roots, path)
        target_path == v.path
    IN  IF ro THEN Fail("ReadOnly", f)
        ELSE IF ~v.ok THEN Fail("PathViolation", f)
        ELSE IF Stat(f, target_path).kind = "none" THEN Fail("NotFound", f)
        ELSE IF IsFile(f, target_path) THEN Out("ok", Remove(f, target_path), <<>>, <<>>)
        ELSE IF IsDir(f, target_path)
             THEN IF HasEntries(f, target_path)
                  THEN Fail("NotEmpty", f)
                  ELSE Out("ok", Remove(f, target_path), <<>>, <<>>)
             ELSE Out("ok", f, <<>>, <<>>)

\* str(item.name) order of sorted(): the position of the name in NameOrder
NameRank(n) == CHOOSE i \in 1..Len(NameOrder) : NameOrder[i] = n

Last(p) == p[Len(p)]

\* the entry list_directory builds for one child
Item(f, item) ==
    [name |-> Last(item),
     path |-> item,
     type |-> IF IsDir(f, item) THEN "directory" ELSE "file",
     size |-> IF IsFile(f, item) THEN EncodedSize(Stat(f, item).content) ELSE -1]

\* the key of sorted(): (type != "directory", name)
ItemBefore(x, y) ==
    \/ x.type = "directory" /\ y.type # "directory"
    \/ (x.type = "directory") = (y.type = "directory") /\ NameRank(x.name) < NameRank(y.name)

RECURSIVE SortItems(_)
SortItems(items) ==
    IF items = <<>> THEN <<>>
    ELSE LET i == CHOOSE i \in 1..Len(items) :
                      \A j \in 1..Len(items) : j = i \/ ItemBefore(items[i], items[j])
         IN  <<items[i]>> \o SortItems(SubSeq(items, 1, i - 1) \o SubSeq(items, i + 1, Len(items)))

\* a list_directory that returns the entries in the order of the directory scan
ListDirectoryUnsorted(f, roots, path) ==
    LET target_path == Resolve(f, path)
        readable == SelectSeq(Children(f, target_path), LAMBDA c : Stat(f, c).kind # "none")
    IN  IF ~\E i \in 1..Len(roots) : IsPrefix(roots[i], target_path)
        THEN Fail("PathViolation", f)
        ELSE IF Stat(f, target_path).kind = "none" THEN Fail("NotFound", f)
        ELSE IF ~IsDir(f, target_path) THEN Fail("NotADirectory", f)
        ELSE Out("ok", f, <<>>, [i \in 1..Len(readable) |-> Item(f, readable[i])])

\* FileHandler.list_directory
ListDirectory(f, roots, path) ==
    LET v == ValidatePath(f, roots, path)
        dir_path == v.path
        readable == SelectSeq(Children(f, dir_path), LAMBDA c : Stat(f, c).kind # "none")
        items == [i \in 1..Len(readable) |-> Item(f, readable[i])]
    IN  IF ~v.ok THEN Fail("PathViolation", f)
        ELSE IF Stat(f, dir_path).kind = "none" THEN Fail("NotFound", f)
        ELSE IF ~IsDir(f, dir_path) THEN Fail("NotADirectory", f)
        ELSE Out("ok", f, <<>>, SortItems(items))

\* matches per file
MatchLimit == 5

\* a scan that does not stop at the fifth match
RECURSIVE ScanLinesNoBreak(_, _, _, _)
ScanLinesNoBreak(lines, i, pattern_lower, matches) ==
    IF i > Len(lines) THEN matches
    ELSE IF Contains(Lower(lines[i]), pattern_lower)
         THEN ScanLinesNoBreak(lines, i + 1, pattern_lower,
                  Append(matches, [line |-> i, text |-> Take(Strip(lines[i]), ExcerptLen)]))
         ELSE ScanLinesNoBreak(lines, i + 1, pattern_lower, matches)

\* the match entries of the lines from the i-th on, matches being those found so far
RECURSIVE ScanLines(_, _, _, _)
ScanLines(lines, i, pattern_lower, matches) ==
    IF i > Len(lines) THEN matches
    ELSE IF Contains(Lower(lines[i]), pattern_lower)
         THEN LET more == Append(matches, [line |-> i, text |-> Take(Strip(lines[i]), ExcerptLen)])
              IN  IF Len(more) >= MatchLimit THEN more
                  ELSE ScanLines(lines, i + 1, pattern_lower, more)
         ELSE ScanLines(lines, i + 1, pattern_lower, matches)

\* a search_file that numbers the lines from 0
SearchFileZeroBased(f, file_path, pattern_lower) ==
    LET st == Stat(f, file_path)
        content == TextRead(st.content)
        found == ScanLines(SplitLines(content), 1, pattern_lower, <<>>)
    IN  IF st.kind # "file" THEN <<>>
        ELSE IF EncodedSize(st.content) > MaxFileSizeBytes THEN <<>>
        ELSE IF ~Decodable(st.content) THEN <<>>
        ELSE IF Contains(Lower(content), pattern_lower)
             THEN <<[path |-> file_path,
                     matches |-> [k \in 1..Len(found) |->
                                     [found[k] EXCEPT !.line = found[k].line - 1]]]>>
             ELSE <<>>

\* a search_file that returns an entry for every file it could read
SearchFileUnfiltered(f, file_path, pattern_lower) ==
    LET st == Stat(f, file_path)
        content == TextRead(st.content)
    IN  IF st.kind # "file" THEN <<>>
        ELSE IF EncodedSize(st.content) > MaxFileSizeBytes THEN <<>>
        ELSE IF ~Decodable(st.content) THEN <<>>
        ELSE <<[path |-> file_path,
                matches |-> ScanLines(SplitLines(content), 1, pattern_lower, <<>>)]>>

\* search_files.search_file: <<>> for None, else <<the entry>>
SearchFile(f, file_path, pattern_lower) ==
    LET st == Stat(f, file_path)
        content == TextRead(st.content)
    IN  IF st.kind # "file" THEN <<>>
        ELSE IF EncodedSize(st.content) > MaxFileSizeBytes THEN <<>>
        ELSE IF ~Decodable(st.content) THEN <<>>
        ELSE IF Contains(Lower(content), pattern_lower)
             THEN <<[path |-> file_path,
                     matches |-> ScanLines(SplitLines(content), 1, pattern_lower, <<>>)]>>
             ELSE <<>>

\* an os.walk with followlinks=True: links to directories are descended into
SubDirsFollowLinks(f, p) == SelectSeq(Children(f, p), LAMBDA c : IsDir(f, c))

\* the entries of p that os.walk descends into: directories that are no links
SubDirs(f, p) == SelectSeq(Children(f, p), LAMBDA c : IsDir(f, c) /\ ~IsLink(f, c))

\* the entries of p that os.walk reports as files: all that are no directory
\* (a link to a directory is one)
WalkFiles(f, p) == SelectSeq(Children(f, p), LAMBDA c : ~IsDir(f, c))

\* the directories os.walk(top) yields, in its order (top-down, links not followed)
RECURSIVE WalkDirs(_, _)
WalkDirs(f, top) ==
    IF ~IsDir(f, top) THEN <<>>
    ELSE LET sub == SubDirs(f, top)
         IN  <<top>> \o Flatten([i \in 1..Len(sub) |-> WalkDirs(f, sub[i])])

\* the inner loop over one directory's files: it ends at the break
RECURSIVE CollectFiles(_, _, _)
CollectFiles(files_to_search, files, cap) ==
    IF files = <<>> THEN files_to_search
    ELSE LET more == Append(files_to_search, Head(files))
         IN  IF Len(more) >= cap THEN more ELSE CollectFiles(more, Tail(files), cap)

\* the outer loop over the directories of the walk: the break leaves only the inner loop
RECURSIVE CollectWalk(_, _, _, _)
CollectWalk(f, files_to_search, dirs, cap) ==
    IF dirs = <<>> THEN files_to_search
    ELSE CollectWalk(f, CollectFiles(files_to_search, WalkFiles(f, Head(dirs)), cap),
                     Tail(dirs), cap)

\* the candidate files whose scans search_files starts
Candidates(f, search_path, max_results) ==
    PySlice(CollectWalk(f, <<>>, WalkDirs(f, search_path), max_results * 2), max_results * 2)

\* a search_files whose scans let the exceptions of open and read pass
SearchFilesNoCatch(f, roots, path, pattern, max_results) ==
    LET v == ValidatePath(f, roots, path)
        search_path == v.path
        pattern_lower == Lower(pattern)
        tasks == Candidates(f, search_path, max_results)
        search_results == Flatten([i \in 1..Len(tasks) |-> SearchFile(f, tasks[i], pattern_lower)])
    IN  IF ~v.ok THEN Fail("PathViolation", f)
        ELSE IF Stat(f, search_path).kind = "none" THEN Fail("NotFound", f)
        ELSE IF \E i \in 1..Len(tasks) :
                    \/ Stat(f, tasks[i]).kind # "file"
                    \/ /\ EncodedSize(Stat(f, tasks[i]).content) <= MaxFileSizeBytes
                       /\ ~Decodable(Stat(f, tasks[i]).content)
             THEN Fail("OSError", f)
        ELSE Out("ok", f, <<>>, PySlice(search_results, max_results))

\* FileHandler.search_files
SearchFiles(f, roots, path, pattern, max_results) ==
    LET v == ValidatePath(f, roots, path)
        search_path == v.path
        pattern_lower == Lower(pattern)
        tasks == Candidates(f, search_path, max_results)
        search_results == Flatten([i \in 1..Len(tasks) |-> SearchFile(f, tasks[i], pattern_lower)])
    IN  IF ~v.ok THEN Fail("PathViolation", f)
        ELSE IF Stat(f, search_path).kind = "none" THEN Fail("NotFound", f)
        ELSE Out("ok", f, <<>>, PySlice(search_results, max_results))

----------------------------------------------------------------------------
(* The JSON-RPC handler *)

\* the methods that the class FileHandler defines
FileHandlerMethods ==
    { "_validate_path", "list_directory", "read_file", "write_file",
      "create_directory", "delete_path", "search_files" }

\* the default of search_files' parameter max_results
DefaultMaxResults == 100

\* a JsonRpcRequest.  params is a dict or None (has_params); of the dict, name
\* is the value of "name" ("None" when the key is absent), keys are the keys
\* that "arguments" holds and arguments gives the values of these keys
JsonRpcRequest(id, method, has_params, name, keys, arguments) ==
    [id |-> id, method |-> method, has_params |-> has_params, name |-> name,
     keys |-> keys, arguments |-> arguments]

\* values for the keys that a request's arguments do not hold
NoArguments ==
    [path |-> Req(TRUE, <<>>), content |-> <<>>, pattern |-> <<>>,
     max_results |-> 0, command |-> <<>>]

NoResult == [none |-> TRUE, text |-> <<>>, entries |-> <<>>]

\* the result of a tool: its text, or the entries that json.dumps writes out
Result(text, entries) == [none |-> FALSE, text |-> text, entries |-> entries]

NoError == [none |-> TRUE, code |-> 0, message |-> ""]

Error(code, message) == [none |-> FALSE, code |-> code, message |-> message]

\* a JsonRpcResponse; escaped tells that no response was made because an
\* exception left the handler
JsonRpcResponse(id, result, error) ==
    [id |-> id, result |-> result, error |-> error, escaped |-> FALSE]

\* the outcome of a block of the handler: it raised an exception with this
\* message, or it came to its end with this result
Raised(message, f) ==
    [raised |-> TRUE, message |-> message, result |-> NoResult, fs |-> f, ran |-> <<>>]

Returned(result, f, r) ==
    [raised |-> FALSE, message |-> "", result |-> result, fs |-> f, ran |-> r]

\* arguments[key] where the key is absent
KeyError(key, f) == Raised("'" \o key \o "'", f)

\* a call of a FileHandler method: its exception (the message is taken to be
\* the kind of the failure) or its value
Await(out) ==
    IF out.err # "ok" THEN Raised(out.err, out.fs)
    ELSE Returned(Result(out.text, out.entries), out.fs, <<>>)

\* the pieces of s between the tokens in seps, piece being the piece begun;
\* empty pieces are dropped
RECURSIVE SplitAt(_, _, _)
SplitAt(s, seps, piece) ==
    LET ended == IF piece = <<>> THEN <<>> ELSE <<piece>>
    IN  IF s = <<>> THEN ended
        ELSE IF Head(s) \in seps THEN ended \o SplitAt(Tail(s), seps, <<>>)
        ELSE SplitAt(Tail(s), seps, Append(piece, Head(s)))

\* str.split(): the words of a command, each the sequence of its tokens
Split(command) == SplitAt(command, {"SP", "LF", "CR"}, <<>>)

\* the commands that a shell runs when it is given the command line: the
\* simple commands between its control operators, each as its words
ShellRuns(command) ==
    LET simple == SplitAt(command, {";", "&", "|", "LF"}, <<>>)
        run == [i \in 1..Len(simple) |-> [via |-> "shell", words |-> Split(simple[i])]]
    IN  SelectSeq(run, LAMBDA r : r.words # <<>>)

\* execute_ha_cli_command.allowed_commands
allowed_commands ==
    << <<"ha", "SP", "addons">>, <<"ha", "SP", "supervisor">>, <<"ha", "SP", "core">>,
       <<"ha", "SP", "host">>, <<"ha", "SP", "network">>, <<"ha", "SP", "os">>,
       <<"ha", "SP", "audio">>, <<"ha", "SP", "multicast">>, <<"ha", "SP", "dns">>,
       <<"ha", "SP", "jobs">>, <<"ha", "SP", "resolution">>, <<"ha", "SP", "info">>,
       <<"ha", "SP", "--help">> >>

\* a request to the Supervisor API that stands for these words of a command
Supervisor(words) == <<[via |-> "supervisor", words |-> words]>>

\* the dict that the execution of a command returns; the outcome of a process
\* that the shell ran is taken to be success
CommandResult(command, success) ==
    Result(<<>>, <<[command |-> command, success |-> success]>>)

\* SupervisorAPI.execute_ha_cli_equivalent
ExecuteHaCliEquivalent(command, f) ==
    LET parts == Split(Strip(command))
        n == Len(parts)
    IN  IF n < 2 \/ parts[1] # <<"ha">> THEN Raised("Invalid command format", f)
        ELSE IF parts[2] = <<"addons">> /\ n >= 4 /\ parts[3] = <<"logs">>
             THEN Returned(CommandResult(command, TRUE), f, Supervisor(SubSeq(parts, 1, 4)))
        ELSE IF parts[2] = <<"addons">> /\ n >= 4 /\ parts[3] = <<"info">>
             THEN Returned(CommandResult(command, TRUE), f, Supervisor(SubSeq(parts, 1, 4)))
        ELSE IF parts[2] = <<"addons">> /\ n = 2
             THEN Returned(CommandResult(command, TRUE), f, Supervisor(parts))
        ELSE IF parts[2] \in {<<"supervisor">>, <<"core">>, <<"host">>}
                /\ n >= 3 /\ parts[3] = <<"logs">>
             THEN Returned(CommandResult(command, TRUE), f, Supervisor(SubSeq(parts, 1, 3)))
        ELSE Returned(CommandResult(command, FALSE), f, <<>>)

\* execute_ha_cli_command
ExecuteHaCliCommand(e, command, f) ==
    LET command_safe == \E i \in 1..Len(allowed_commands) :
                            IsPrefix(allowed_commands[i], Strip(command))
        api == ExecuteHaCliEquivalent(command, f)
    IN  IF ~e.ENABLE_HA_CLI THEN Raised("HA CLI commands are disabled", f)
        ELSE IF ~command_safe THEN Raised("Command not allowed", f)
        ELSE IF e.SUPERVISOR_TOKEN
             THEN IF api.raised
                  THEN Raised("Failed to execute command: " \o api.message, f)
                  ELSE api
        ELSE Returned(CommandResult(command, TRUE), f, ShellRuns(command))

\* the names of the tools that tools/list returns
ToolNames(e) ==
    <<"list_directory", "read_file", "write_file", "create_directory", "delete_path",
      "search_files", "read_file_filtered">>
    \o (IF e.ENABLE_HA_CLI THEN <<"execute_ha_cli", "list_ha_entities_devices">> ELSE <<>>)

\* get_ha_entities_and_devices, as far as its guards; what the REST queries
\* return is left out
GetHaEntitiesAndDevices(e, f) ==
    IF ~e.ENABLE_HA_CLI THEN Raised("HA CLI commands are disabled", f)
    ELSE IF ~e.SUPERVISOR_TOKEN THEN Raised("SUPERVISOR_TOKEN not available", f)
    ELSE Returned(Result(<<>>, <<>>), f, <<>>)

\* handle_mcp_request, the branch of tools/call up to its return statement
ToolsCall(f, ro, roots, e, req) ==
    LET tool_name == req.name
        arguments == req.arguments
        Missing(key) == key \notin req.keys
        Done(out, text) == IF out.raised THEN out
                           ELSE Returned(Result(<<text>>, <<>>), out.fs, out.ran)
        disabled == "HA CLI commands are disabled. Set MCP_ENABLE_HA_CLI=true to enable."
    IN  IF ~req.has_params THEN Raised("'NoneType' object has no attribute 'get'", f)
        ELSE IF tool_name = "list_directory"
             THEN IF Missing("path") THEN KeyError("path", f)
                  ELSE Await(ListDirectory(f, roots, arguments.path))
        ELSE IF tool_name = "read_file"
             THEN IF Missing("path") THEN KeyError("path", f)
                  ELSE Await(ReadFile(f, roots, arguments.path))
        ELSE IF tool_name = "write_file"
             THEN IF ro THEN Raised("Server is in read-only mode", f)
                  ELSE IF Missing("path") THEN KeyError("path", f)
                  ELSE IF Missing("content") THEN KeyError("content", f)
                  ELSE Done(Await(WriteFile(f, ro, roots, arguments.path, arguments.content)),
                            "File written successfully")
        ELSE IF tool_name = "create_directory"
             THEN IF ro THEN Raised("Server is in read-only mode", f)
                  ELSE IF Missing("path") THEN KeyError("path", f)
                  ELSE Done(Await(CreateDirectory(f, ro, roots, arguments.path)),
                            "Directory created")
        ELSE IF tool_name = "delete_path"
             THEN IF ro THEN Raised("Server is in read-only mode", f)
                  ELSE IF Missing("path") THEN KeyError("path", f)
                  ELSE Done(Await(DeletePath(f, ro, roots, arguments.path)), "Path deleted")
        ELSE IF tool_name = "search_files"
             THEN IF Missing("path") THEN KeyError("path", f)
                  ELSE IF Missing("pattern") THEN KeyError("pattern", f)
                  ELSE Await(SearchFiles(f, roots, arguments.path, arguments.pattern,
                                         DefaultMaxResults))
        ELSE IF tool_name = "read_file_filtered"
             THEN IF tool_name \notin FileHandlerMethods
                  THEN Raised("'FileHandler' object has no attribute 'read_file_filtered'", f)
                  ELSE KeyError("path", f)
        ELSE IF tool_name = "execute_ha_cli"
             THEN IF ~e.ENABLE_HA_CLI THEN Raised(disabled, f)
                  ELSE IF Missing("command") THEN KeyError("command", f)
                  ELSE ExecuteHaCliCommand(e, arguments.command, f)
        ELSE IF tool_name = "list_ha_entities_devices"
             THEN IF ~e.ENABLE_HA_CLI THEN Raised(disabled, f)
                  ELSE GetHaEntitiesAndDevices(e, f)
        ELSE Raised("Unknown tool: " \o tool_name, f)

\* what a call of the handler leaves: its response, the filesystem and what ran
Handled(resp, f, r) == [response |-> resp, fs |-> f, ran |-> r]

\* the try block of handle_mcp_request for the methods it knows
TryBlock(f, ro, roots, e, req) ==
    IF req.method = "initialize" THEN Returned(Result(<<"ha-mcp-file-server">>, <<>>), f, <<>>)
    ELSE IF req.method = "tools/list" THEN Returned(Result(<<>>, ToolNames(e)), f, <<>>)
    ELSE ToolsCall(f, ro, roots, e, req)

\* a handle_mcp_request without its except clause
HandleMcpRequestNoCatch(f, ro, roots, e, req) ==
    LET out == TryBlock(f, ro, roots, e, req)
    IN  IF req.method \notin {"initialize", "tools/list", "tools/call"}
        THEN Handled(JsonRpcResponse(req.id, NoResult,
                                     Error(-32601, "Method not found: " \o req.method)), f, <<>>)
        ELSE IF out.raised
             THEN Handled([JsonRpcResponse(req.id, NoResult, NoError) EXCEPT !.escaped = TRUE],
                          out.fs, out.ran)
        ELSE Handled(JsonRpcResponse(req.id, out.result, NoError), out.fs, out.ran)

\* handle_mcp_request
HandleMcpRequest(f, ro, roots, e, req) ==
    LET out == TryBlock(f, ro, roots, e, req)
    IN  IF req.method \notin {"initialize", "tools/list", "tools/call"}
        THEN Handled(JsonRpcResponse(req.id, NoResult,
                                     Error(-32601, "Method not found: " \o req.method)), f, <<>>)
        ELSE IF out.raised
             THEN Handled(JsonRpcResponse(req.id, NoResult, Error(-32603, out.message)),
                          out.fs, out.ran)
        ELSE Handled(JsonRpcResponse(req.id, out.result, NoError), out.fs, out.ran)

----------------------------------------------------------------------------
(* The deployment and the calls *)

P(c) == Req(TRUE, c)

\* the content of a file of six lines, each containing "a" in upper or lower case
SixLines == <<"A", "LF", "a", "LF", "a", "LF", "a", "LF", "a", "LF", "A">>

\* a file over the size limit, written by another program
Oversized == <<"A", "LF", "a", "a", "a", "a", "a", "a", "a", "a", "a", "a", "a", "a", "a", "a">>

\* the filesystem at start: the allowed roots /r and /w (configured as /n, a
\* link to it), the sibling /rx and the directory /o outside them, and links
\* under /r that lead out of it, stay in it, lead nowhere (/r/u) or lead to
\* the directory above them (/r/o/l, a cycle)
InitFs ==
    (<<>> :> Dir)
    @@ (<<"r">> :> Dir)
    @@ (<<"r", "f">> :> File(<<"a", "LF", "b", "A", "SP">>))
    @@ (<<"r", "b">> :> File(<<"a", "XX">>))
    @@ (<<"r", "d">> :> Dir)
    @@ (<<"r", "d", "g">> :> File(SixLines))
    @@ (<<"r", "d", "h">> :> File(Oversized))
    @@ (<<"r", "d", "u">> :> Link(FALSE, <<"..", "..", "o">>))
    @@ (<<"r", "e">> :> Dir)
    @@ (<<"r", "c">> :> Link(TRUE, <<"r", "l">>))
    @@ (<<"r", "l">> :> Link(TRUE, <<"o", "s">>))
    @@ (<<"r", "k">> :> Link(TRUE, <<"o">>))
    @@ (<<"r", "j">> :> Link(FALSE, <<"d">>))
    @@ (<<"r", "u">> :> Link(TRUE, <<"r", "n">>))
    @@ (<<"r", "o">> :> Dir)
    @@ (<<"r", "o", "s">> :> File(<<"s">>))
    @@ (<<"r", "o", "l">> :> Link(FALSE, <<"..">>))
    @@ (<<"r", "w">> :> Dir)
    @@ (<<"r", "w", "b">> :> File(<<"SP", "A", "b", "b", "b", "SP">>))
    @@ (<<"rx">> :> Dir)
    @@ (<<"rx", "f">> :> File(<<"a">>))
    @@ (<<"o">> :> Dir)
    @@ (<<"o", "s">> :> File(<<"s", "a">>))
    @@ (<<"n">> :> Link(TRUE, <<"w">>))
    @@ (<<"w">> :> Dir)

\* MCP_ALLOWED_DIRS
ALLOWED_DIRS == <<P(<<"r">>), P(<<"n">>)>>

\* the paths that callers pass
ReqPaths ==
    { P(<<"r">>), P(<<"r", "f">>), P(<<"r", "d">>), P(<<"r", "d", "g">>), P(<<"r", "e">>),
      P(<<"r", "n", "h">>), P(<<"r", "f", "b">>), P(<<"n", "b">>),
      P(<<"r", "j", "g">>), P(<<"r", "d", "..", "f">>), Req(FALSE, <<"..", "r", "b">>),
      P(<<"r", "c">>), P(<<"r", "k", "s">>), P(<<"r", "k", "n">>),
      P(<<"r", "d", "u", "s">>), P(<<"r", "..", "o", "s">>), Req(FALSE, <<"s">>),
      P(<<"rx", "f">>), P(<<"o">>) }

\* the contents that callers write
Contents ==
    { <<"b">>,
      <<"a", "CR", "LF", "E2">>,
      <<"E2", "E2", "E2", "E2", "E2", "E2", "E2">> }

\* the patterns that callers search for
Patterns == { <<"A">>, <<"a", "LF", "b">>, <<"s">>, <<"c">> }

\* the max_results that callers pass
MaxResultsArgs == { -1, 0, 1, 100 }

\* the roots of the searches
SearchPaths == { P(<<"r">>), P(<<"r", "d">>), P(<<"r", "f">>), P(<<"o">>) }

\* the values of the variables that a specification does not use
NoEnv == [ENABLE_HA_CLI |-> FALSE, SUPERVISOR_TOKEN |-> FALSE]

NoRequest == JsonRpcRequest(0, "none", FALSE, "None", {}, NoArguments)

NoResponse == JsonRpcResponse(0, NoResult, NoError)

NoScans == [phase |-> "none"]

NoWriters == <<>>

\* no POST request is in progress
NoBatch == [phase |-> "none"]

NoCall ==
    [op |-> "none", path |-> P(<<>>), content |-> <<>>, pattern |-> <<>>, max_results |-> 0,
     err |-> "ok", text |-> <<>>, entries |-> <<>>, canon |-> <<>>, again |-> Violation]

Init ==
    /\ fs = InitFs
    /\ pre = InitFs
    /\ read_only \in BOOLEAN
    /\ allowed_dirs = InitAllowedDirs(InitFs, ALLOWED_DIRS)
    /\ calls = 0
    /\ last = NoCall
    /\ env = NoEnv
    /\ request = NoRequest
    /\ response = NoResponse
    /\ ran = <<>>
    /\ scans = NoScans
    /\ writers = NoWriters
    /\ batch = NoBatch

\* a call is made and its outcome recorded
Called(rec, out) ==
    /\ calls < MaxCalls
    /\ calls' = calls + 1
    /\ pre' = fs
    /\ fs' = out.fs
    /\ last' = [rec EXCEPT !.err = out.err, !.text = out.text, !.entries = out.entries]
    /\ UNCHANGED <<read_only, allowed_dirs, env, request, response, ran, scans, writers, batch>>

Validate ==
    \E p \in ReqPaths :
        LET v == ValidatePath(fs, allowed_dirs, p)
        IN  Called([NoCall EXCEPT !.op = "validate", !.path = p, !.canon = v.path,
                                  !.again = ValidatePath(fs, allowed_dirs, P(v.path))],
                   Fail(IF v.ok THEN "ok" ELSE "PathViolation", fs))

list_directory ==
    \E p \in ReqPaths :
        Called([NoCall EXCEPT !.op = "list_directory", !.path = p],
               ListDirectory(fs, allowed_dirs, p))

read_file ==
    \E p \in ReqPaths :
        Called([NoCall EXCEPT !.op = "read_file", !.path = p],
               ReadFile(fs, allowed_dirs, p))

write_file ==
    \E p \in ReqPaths, c \in Contents :
        Called([NoCall EXCEPT !.op = "write_file", !.path = p, !.content = c],
               WriteFile(fs, read_only, allowed_dirs, p, c))

create_directory ==
    \E p \in ReqPaths :
        Called([NoCall EXCEPT !.op = "create_directory", !.path = p],
               CreateDirectory(fs, read_only, allowed_dirs, p))

delete_path ==
    \E p \in ReqPaths :
        Called([NoCall EXCEPT !.op = "delete_path", !.path = p],
               DeletePath(fs, read_only, allowed_dirs, p))

search_files ==
    \E p \in SearchPaths, pat \in Patterns, m \in MaxResultsArgs :
        Called([NoCall EXCEPT !.op = "search_files", !.path = p, !.pattern = pat,
                              !.max_results = m],
               SearchFiles(fs, allowed_dirs, p, pat, m))

Next ==
    \/ Validate
    \/ list_directory
    \/ read_file
    \/ write_file
    \/ create_directory
    \/ delete_path
    \/ search_files

Spec == Init /\ [][Next]_vars

----------------------------------------------------------------------------
(* The requests to the handler *)

\* the ids of the requests
Ids == {1, 2}

\* the ids of the well-formed tool calls
ToolCallIds == {1}

\* the paths in the arguments of the tool calls
McpPaths == { P(<<"r">>), P(<<"r", "f">>), P(<<"r", "n", "h">>), P(<<"o">>) }

\* the command lines in the arguments of execute_ha_cli
Commands ==
    { <<"ha", "SP", "info">>,
      <<"SP", "ha", "SP", "core", "SP", "logs", "SP">>,
      <<"ha", "SP", "addons", "SP", "logs", "SP", "x">>,
      <<"ha", "SP", "addons">>,
      <<"ha", "SP", "core", "dump">>,
      <<"ha", "SP", "info", ";", "SP", "reboot">>,
      <<"ha", "SP", "host", "SP", "logs", "SP", "|", "SP", "sh">>,
      <<"reboot">>,
      <<"ls", "SP", "ha", "SP", "info">> }

\* params of a tools/call with this tool name and these arguments
Call(id, name, keys, arguments) ==
    JsonRpcRequest(id, "tools/call", TRUE, name, keys, arguments)

\* the tools/call requests for the tools that take a path
PathCalls ==
    { Call(id, name, {"path"}, [NoArguments EXCEPT !.path = p]) :
          id \in ToolCallIds,
          name \in {"list_directory", "read_file", "create_directory", "delete_path",
                    "read_file_filtered"},
          p \in McpPaths }

WriteCalls ==
    { Call(id, "write_file", {"path", "content"},
           [NoArguments EXCEPT !.path = p, !.content = c]) :
          id \in ToolCallIds, p \in McpPaths, c \in {<<"b">>, <<"a", "CR", "LF", "E2">>} }

SearchCalls ==
    { Call(id, "search_files", {"path", "pattern"} \cup more,
           [NoArguments EXCEPT !.path = p, !.pattern = pat, !.max_results = 1]) :
          id \in ToolCallIds, p \in {P(<<"r">>), P(<<"o">>)}, pat \in {<<"A">>, <<"c">>},
          more \in {{}, {"max_results"}} }

CommandCalls ==
    { Call(id, "execute_ha_cli", {"command"}, [NoArguments EXCEPT !.command = c]) :
          id \in ToolCallIds, c \in Commands }

\* calls that lack params, the tool's name, an argument, or name no tool
BrokenCalls ==
    { JsonRpcRequest(id, "tools/call", FALSE, "None", {}, NoArguments) : id \in Ids }
    \cup { Call(id, name, keys, NoArguments) :
               id \in Ids,
               name \in {"None", "chmod", "read_file", "write_file", "search_files",
                         "execute_ha_cli", "list_ha_entities_devices"},
               keys \in {{}, {"path"}} }

\* the requests of the other methods
OtherRequests ==
    { JsonRpcRequest(id, method, has_params, "None", {}, NoArguments) :
          id \in Ids,
          method \in {"initialize", "tools/list", "resources/list"},
          has_params \in BOOLEAN }

McpInit ==
    /\ fs = InitFs
    /\ pre = InitFs
    /\ read_only \in BOOLEAN
    /\ allowed_dirs = InitAllowedDirs(InitFs, ALLOWED_DIRS)
    /\ calls = 0
    /\ last = NoCall
    /\ env \in [ENABLE_HA_CLI : BOOLEAN, SUPERVISOR_TOKEN : BOOLEAN]
    /\ request = NoRequest
    /\ response = NoResponse
    /\ ran = <<>>
    /\ scans = NoScans
    /\ writers = NoWriters
    /\ batch = NoBatch

\* the endpoint hands a request to handle_mcp_request
Handle(req) ==
    LET h == HandleMcpRequest(fs, read_only, allowed_dirs, env, req)
    IN  /\ calls < MaxCalls
        /\ calls' = calls + 1
        /\ request' = req
        /\ response' = h.response
        /\ ran' = h.ran
        /\ pre' = fs
        /\ fs' = h.fs
        /\ UNCHANGED <<read_only, allowed_dirs, last, env, scans, writers, batch>>

file_tool_call == \E req \in PathCalls \cup WriteCalls : Handle(req)

search_files_call == \E req \in SearchCalls : Handle(req)

execute_ha_cli_call == \E req \in CommandCalls : Handle(req)

broken_call == \E req \in BrokenCalls : Handle(req)

other_request == \E req \in OtherRequests : Handle(req)

McpNext ==
    \/ file_tool_call
    \/ search_files_call
    \/ execute_ha_cli_call
    \/ broken_call
    \/ other_request

McpSpec == McpInit /\ [][McpNext]_vars

----------------------------------------------------------------------------
(* The scans of one search_files call: asyncio.gather over search_file *)

\* the searches whose scans are followed
GatherPaths == { P(<<"r">>), P(<<"r", "d">>), P(<<"o">>) }

GatherMaxResults == { 1, 100 }

GatherInit ==
    /\ fs = InitFs
    /\ pre = InitFs
    /\ read_only = FALSE
    /\ allowed_dirs = InitAllowedDirs(InitFs, ALLOWED_DIRS)
    /\ calls = 0
    /\ last = NoCall
    /\ env = NoEnv
    /\ request = NoRequest
    /\ response = NoResponse
    /\ ran = <<>>
    /\ scans = NoScans
    /\ writers = NoWriters
    /\ batch = NoBatch

\* the state of a search_files call: its arguments, the files of its tasks,
\* where every task is (pending, opening, reading, done) and what it returned
Scans(phase, path, pattern, max_results, tasks, state, results, err) ==
    [phase |-> phase, path |-> path, pattern |-> pattern, max_results |-> max_results,
     tasks |-> tasks, state |-> state, results |-> results, err |-> err]

\* search_files up to asyncio.gather(*tasks): the path is validated, the
\* candidates are collected and one task per candidate is created
search_files_gather ==
    \E p \in GatherPaths, m \in GatherMaxResults :
        LET v == ValidatePath(fs, allowed_dirs, p)
            tasks == Candidates(fs, v.path, m)
            none == [i \in 1..Len(tasks) |-> <<>>]
        IN  /\ scans.phase # "gather"
            /\ calls < MaxCalls
            /\ calls' = calls + 1
            /\ scans' = IF ~v.ok
                        THEN Scans("raised", p, <<"A">>, m, <<>>, <<>>, <<>>, "PathViolation")
                        ELSE IF Stat(fs, v.path).kind = "none"
                        THEN Scans("raised", p, <<"A">>, m, <<>>, <<>>, <<>>, "NotFound")
                        ELSE Scans("gather", p, <<"A">>, m, tasks,
                                   [i \in 1..Len(tasks) |-> "pending"], none, "ok")
            /\ UNCHANGED <<fs, pre, read_only, allowed_dirs, last, env, request, response,
                           ran, writers, batch>>

\* search_file gets past its size check: stat() succeeds and st_size is within
\* the limit
WithinLimit(f, file_path) ==
    /\ Stat(f, file_path).kind # "none"
    /\ EncodedSize(Stat(f, file_path).content) <= MaxFileSizeBytes

\* the step of task i with the others left as they are
Step(i, state, result) ==
    /\ scans' = [scans EXCEPT !.state[i] = state, !.results[i] = result]
    /\ UNCHANGED <<fs, pre, read_only, allowed_dirs, calls, last, env, request, response,
                   ran, writers, batch>>

\* the first step of a task, which the event loop runs for the tasks in the
\* order of their creation: search_file up to its first await.  A file that
\* cannot be stat-ed or is over the size limit ends the task with None; for
\* any other file the task waits for aiofiles.open
scan_begin ==
    /\ scans.phase = "gather"
    /\ \E i \in 1..Len(scans.tasks) :
           /\ scans.state[i] = "pending"
           /\ \A j \in 1..(i - 1) : scans.state[j] # "pending"
           /\ IF WithinLimit(fs, scans.tasks[i])
              THEN Step(i, "opening", <<>>)
              ELSE Step(i, "done", <<>>)

\* aiofiles.open has returned for task i: the file is open and the task waits
\* for f.read().  The loop resumes a task only after it has run the first
\* steps of all the tasks that gather created
scan_opened ==
    /\ scans.phase = "gather"
    /\ \A j \in 1..Len(scans.tasks) : scans.state[j] # "pending"
    /\ \E i \in 1..Len(scans.tasks) :
           /\ scans.state[i] = "opening"
           /\ Step(i, "reading", <<>>)

\* f.read() has returned for task i: the lines are scanned, the file is closed
\* and the task ends
scan_read ==
    /\ scans.phase = "gather"
    /\ \E i \in 1..Len(scans.tasks) :
           /\ scans.state[i] = "reading"
           /\ Step(i, "done", SearchFile(fs, scans.tasks[i], Lower(scans.pattern)))

\* gather has all the results: search_files returns the first max_results of
\* those that are not None
search_files_return ==
    /\ scans.phase = "gather"
    /\ \A i \in 1..Len(scans.tasks) : scans.state[i] = "done"
    /\ scans' = [scans EXCEPT !.phase = "returned",
                              !.results = PySlice(Flatten(scans.results), scans.max_results)]
    /\ UNCHANGED <<fs, pre, read_only, allowed_dirs, calls, last, env, request, response,
                   ran, writers, batch>>

GatherNext ==
    \/ search_files_gather
    \/ scan_begin
    \/ scan_opened
    \/ scan_read
    \/ search_files_return

GatherSpec == GatherInit /\ [][GatherNext]_vars

----------------------------------------------------------------------------
(* Two write_file calls at the same time: the steps between their awaits *)

\* the handlers that run write_file
Writers == {1, 2}

\* what they write, in characters of one byte, and where
WriterContents == { <<"b">>, <<"a", "LF", "a">>, <<"a", "a", "a", "a">> }

WriterPaths == { P(<<"r", "f">>), P(<<"r", "n", "h">>), P(<<"r", "j", "g">>), P(<<"o", "s">>) }

\* a write_file call: where it is (idle, opening, opened, done, raised), its
\* arguments, its validated path, its error, and the number of its write among
\* the writes made
Writer(pc, path, content, file_path, err, stamp) ==
    [pc |-> pc, path |-> path, content |-> content, file_path |-> file_path,
     err |-> err, stamp |-> stamp]

WriteInit ==
    /\ fs = InitFs
    /\ pre = InitFs
    /\ read_only \in BOOLEAN
    /\ allowed_dirs = InitAllowedDirs(InitFs, ALLOWED_DIRS)
    /\ calls = 0
    /\ last = NoCall
    /\ env = NoEnv
    /\ request = NoRequest
    /\ response = NoResponse
    /\ ran = <<>>
    /\ scans = NoScans
    /\ writers = [w \in Writers |-> Writer("idle", P(<<>>), <<>>, <<>>, "ok", 0)]
    /\ batch = NoBatch

\* the variables that the writers leave alone
WriteFrame == UNCHANGED <<pre, read_only, allowed_dirs, last, env, request, response, ran, scans,
                        batch>>

\* write_file up to aiofiles.open: the checks and the parents' mkdir
write_file_begin ==
    \E w \in Writers, p \in WriterPaths, c \in WriterContents :
        LET v == ValidatePath(fs, allowed_dirs, p)
            made == Mkdir(fs, Parent(v.path))
            Raise(err) == writers' = [writers EXCEPT ![w] = Writer("raised", p, c, <<>>, err, 0)]
        IN  /\ writers[w].pc \in {"idle", "done", "raised"}
            /\ calls < MaxCalls
            /\ calls' = calls + 1
            /\ IF read_only THEN Raise("ReadOnly") /\ fs' = fs
               ELSE IF ~v.ok THEN Raise("PathViolation") /\ fs' = fs
               ELSE IF EncodedSize(c) > MaxFileSizeBytes THEN Raise("TooLarge") /\ fs' = fs
               ELSE IF ~made.ok THEN Raise("OSError") /\ fs' = fs
               ELSE /\ writers' = [writers EXCEPT ![w] = Writer("opening", p, c, v.path, "ok", 0)]
                    /\ fs' = made.fs
            /\ WriteFrame

\* open(file_path, 'w') runs in a worker thread: the file is created, or
\* truncated to no bytes, and the handle stands at offset 0
write_file_open ==
    \E w \in Writers :
        LET file_path == writers[w].file_path
        IN  /\ writers[w].pc = "opening"
            /\ IF IsDir(fs, file_path) \/ ~IsDir(fs, Parent(file_path))
               THEN /\ writers' = [writers EXCEPT ![w].pc = "raised", ![w].err = "OSError"]
                    /\ fs' = fs
               ELSE /\ writers' = [writers EXCEPT ![w].pc = "opened"]
                    /\ fs' = (file_path :> File(<<>>)) @@ fs
            /\ UNCHANGED calls
            /\ WriteFrame

\* the bytes of a file after new is written at offset 0 over old
WriteAt0(old, new) == new \o SubSeq(old, Len(new) + 1, Len(old))

\* the greatest stamp of a write made
Stamps == CHOOSE n \in 0..MaxCalls : /\ \A w \in Writers : writers[w].stamp <= n
                                     /\ \E w \in Writers : writers[w].stamp = n

\* f.write(content) and the close that flushes it: the encoded content goes to
\* the file at the handle's offset, over what is there
write_file_write ==
    \E w \in Writers :
        LET file_path == writers[w].file_path
            old == IF file_path \in DOMAIN fs THEN fs[file_path].content ELSE <<>>
        IN  /\ writers[w].pc = "opened"
            /\ writers' = [writers EXCEPT ![w].pc = "done", ![w].stamp = Stamps + 1]
            /\ fs' = (file_path :> File(WriteAt0(old, TextWrite(writers[w].content)))) @@ fs
            /\ UNCHANGED calls
            /\ WriteFrame

WriteNext ==
    \/ write_file_begin
    \/ write_file_open
    \/ write_file_write

WriteSpec == WriteInit /\ [][WriteNext]_vars

----------------------------------------------------------------------------
(* The walk of one search_files call: the loop over os.walk *)

\* the searches whose walks are followed
WalkPaths == { P(<<"r">>), P(<<"r", "d">>), P(<<"r", "o">>), P(<<"r", "f">>), P(<<"o">>) }

WalkMaxResults == { 0, 1, 100 }

WalkInit ==
    /\ fs = InitFs
    /\ pre = InitFs
    /\ read_only \in BOOLEAN
    /\ allowed_dirs = InitAllowedDirs(InitFs, ALLOWED_DIRS)
    /\ calls = 0
    /\ last = NoCall
    /\ env = NoEnv
    /\ request = NoRequest
    /\ response = NoResponse
    /\ ran = <<>>
    /\ scans = NoScans
    /\ writers = NoWriters
    /\ batch = NoBatch

\* the state of a search_files call in its loop over os.walk and after it:
\* its arguments, the directories os.walk has still to yield (stack), those it
\* has yielded (visited), the files collected, the files of the tasks, the
\* results of the tasks that are done, and what the call returned
Walk(phase, path, pattern, max_results, stack, visited, files_to_search, tasks, search_results, results, err) ==
    [phase |-> phase, path |-> path, pattern |-> pattern, max_results |-> max_results,
     stack |-> stack, visited |-> visited, files_to_search |-> files_to_search,
     tasks |-> tasks, search_results |-> search_results, results |-> results, err |-> err]

WalkFrame ==
    UNCHANGED <<fs, pre, read_only, allowed_dirs, last, env, request, response, ran,
                writers, batch>>

\* search_files up to the first directory of os.walk(search_path); os.walk of
\* a path that is no directory yields nothing
search_files_walk ==
    \E p \in WalkPaths, pattern \in Patterns, m \in WalkMaxResults :
        LET v == ValidatePath(fs, allowed_dirs, p)
            search_path == v.path
            top == IF IsDir(fs, search_path) THEN <<search_path>> ELSE <<>>
            Raise(err) == Walk("raised", p, pattern, m, <<>>, <<>>, <<>>, <<>>, <<>>, <<>>, err)
        IN  /\ scans.phase \in {"none", "raised", "returned"}
            /\ calls < MaxCalls
            /\ calls' = calls + 1
            /\ scans' = IF ~v.ok THEN Raise("PathViolation")
                        ELSE IF Stat(fs, search_path).kind = "none" THEN Raise("NotFound")
                        ELSE Walk("walk", p, pattern, m, top, <<>>, <<>>, <<>>, <<>>, <<>>, "ok")
            /\ WalkFrame

\* one round of the outer loop: os.walk yields the next directory, top-down,
\* and will yield its subdirectories (no links) before the directories that
\* were pending; the inner loop collects the directory's files up to its break
walk_directory ==
    /\ scans.phase = "walk"
    /\ scans.stack # <<>>
    /\ LET root == Head(scans.stack)
       IN  scans' = [scans EXCEPT
                        !.stack = SubDirs(fs, root) \o Tail(scans.stack),
                        !.visited = Append(scans.visited, root),
                        !.files_to_search =
                            CollectFiles(scans.files_to_search, WalkFiles(fs, root),
                                         scans.max_results * 2)]
    /\ UNCHANGED calls
    /\ WalkFrame

\* os.walk is exhausted: one task per candidate is created
walk_gather ==
    /\ scans.phase = "walk"
    /\ scans.stack = <<>>
    /\ scans' = [scans EXCEPT
                    !.phase = "scan",
                    !.tasks = PySlice(scans.files_to_search, scans.max_results * 2)]
    /\ UNCHANGED calls
    /\ WalkFrame

\* the next task is done; gather keeps the results in the order of the tasks
walk_scan ==
    /\ scans.phase = "scan"
    /\ Len(scans.search_results) < Len(scans.tasks)
    /\ LET file_path == scans.tasks[Len(scans.search_results) + 1]
       IN  scans' = [scans EXCEPT
                        !.search_results =
                            Append(scans.search_results,
                                   SearchFile(fs, file_path, Lower(scans.pattern)))]
    /\ UNCHANGED calls
    /\ WalkFrame

\* all tasks are done: the None results are dropped, the rest is cut and returned
walk_return ==
    /\ scans.phase = "scan"
    /\ Len(scans.search_results) = Len(scans.tasks)
    /\ scans' = [scans EXCEPT
                    !.phase = "returned",
                    !.results = PySlice(Flatten(scans.search_results), scans.max_results)]
    /\ UNCHANGED calls
    /\ WalkFrame

WalkNext ==
    \/ search_files_walk
    \/ walk_directory
    \/ walk_gather
    \/ walk_scan
    \/ walk_return

WalkSpec == WalkInit /\ [][WalkNext]_vars

\* a task is left to be done: walk_scan is enabled
CanScan == scans.phase = "scan" /\ Len(scans.search_results) < Len(scans.tasks)

\* the loop over os.walk, the tasks and the return run on when they can: they
\* are steps of the call's coroutine and of the tasks that the event loop
\* runs, and wait for nothing but the filesystem.  The weak fairness of
\* walk_scan is written out, with CanScan for ENABLED <<walk_scan>>_vars.
WalkFairSpec ==
    /\ WalkSpec
    /\ WF_vars(walk_directory)
    /\ WF_vars(walk_gather)
    /\ ([]<>(~CanScan) \/ []<><<walk_scan>>_vars)
    /\ WF_vars(walk_return)

----------------------------------------------------------------------------
(* The POST endpoint: mcp_post_endpoint *)

\* the requests that the bodies hold
BatchRequests ==
    { Call(id, "write_file", {"path", "content"},
           [NoArguments EXCEPT !.path = P(<<"r", "n", "h">>), !.content = <<"b">>]) :
          id \in Ids }
    \cup { Call(id, name, {"path"}, [NoArguments EXCEPT !.path = p]) :
               id \in Ids, name \in {"read_file", "create_directory"},
               p \in {P(<<"r", "f">>)} }
    \cup { JsonRpcRequest(id, method, FALSE, "None", {}, NoArguments) :
               id \in Ids, method \in {"tools/list", "resources/list"} }

\* an element of a body: the data of a request, or data that JsonRpcRequest
\* rejects (an object without "method", or no object at all)
Element(valid, req) == [valid |-> valid, req |-> req]

Malformed == Element(FALSE, NoRequest)

Elements == { Element(TRUE, req) : req \in BatchRequests } \cup { Malformed }

RECURSIVE Lists(_)
\* the lists of n elements
Lists(n) ==
    IF n = 0 THEN { <<>> }
    ELSE { Append(l, e) : l \in Lists(n - 1), e \in Elements }

\* a parsed body: a JSON list of elements, or one element
Body(list, elems) == [list |-> list, elems |-> elems]

Bodies ==
    { Body(TRUE, l) : l \in UNION { Lists(n) : n \in 0..MaxBatch } }
    \cup { Body(FALSE, <<e>>) : e \in Elements }

\* what the endpoint returns: a list of responses, one response, or the
\* object of the except clause
Reply(kind, responses, error) == [kind |-> kind, responses |-> responses, error |-> error]

ParseError == Reply("error", <<>>, Error(-32700, "Parse error"))

\* the state of a POST: its body, the responses made so far and the reply
Batch(phase, body, responses, reply) ==
    [phase |-> phase, body |-> body, responses |-> responses, reply |-> reply]

BatchInit ==
    /\ fs = InitFs
    /\ pre = InitFs
    /\ read_only \in BOOLEAN
    /\ allowed_dirs = InitAllowedDirs(InitFs, ALLOWED_DIRS)
    /\ calls = 0
    /\ last = NoCall
    /\ env = NoEnv
    /\ request = NoRequest
    /\ response = NoResponse
    /\ ran = <<>>
    /\ scans = NoScans
    /\ writers = NoWriters
    /\ batch = NoBatch

\* a POST arrives and its body is parsed
mcp_post_endpoint ==
    \E body \in Bodies :
        /\ batch.phase # "handling"
        /\ calls < MaxCalls
        /\ calls' = calls + 1
        /\ batch' = Batch("handling", body, <<>>, Reply("none", <<>>, NoError))
        /\ pre' = fs
        /\ UNCHANGED <<fs, read_only, allowed_dirs, last, env, request, response, ran,
                       scans, writers>>

\* the next element of the body: JsonRpcRequest(**req_data) raises and the
\* except clause returns, or the request is handled and its response kept
mcp_post_request ==
    /\ batch.phase = "handling"
    /\ Len(batch.responses) < Len(batch.body.elems)
    /\ LET req_data == batch.body.elems[Len(batch.responses) + 1]
           h == HandleMcpRequest(fs, read_only, allowed_dirs, env, req_data.req)
       IN  IF ~req_data.valid
           THEN /\ batch' = [batch EXCEPT !.phase = "replied", !.reply = ParseError]
                /\ UNCHANGED <<fs, request, response, ran>>
           ELSE /\ batch' = [batch EXCEPT !.responses = Append(batch.responses, h.response)]
                /\ request' = req_data.req
                /\ response' = h.response
                /\ ran' = h.ran
                /\ fs' = h.fs
    /\ UNCHANGED <<pre, read_only, allowed_dirs, calls, last, env, scans, writers>>

\* all elements are handled: the list of the responses, or the one response
mcp_post_return ==
    /\ batch.phase = "handling"
    /\ Len(batch.responses) = Len(batch.body.elems)
    /\ batch' = [batch EXCEPT
                    !.phase = "replied",
                    !.reply = Reply(IF batch.body.list THEN "list" ELSE "single",
                                    batch.responses, NoError)]
    /\ UNCHANGED <<fs, pre, read_only, allowed_dirs, calls, last, env, request, response,
                   ran, scans, writers>>

BatchNext ==
    \/ mcp_post_endpoint
    \/ mcp_post_request
    \/ mcp_post_return

BatchSpec == BatchInit /\ [][BatchNext]_vars

----------------------------------------------------------------------------
(* The claims *)

\* p is an allowed root or a descendant of one, component by component
Inside(p) == \E i \in 1..Len(allowed_dirs) : IsPrefix(allowed_dirs[i], p)

\* the canonical form of the path of the last call, when the call started
Canonical == Resolve(pre, last.path)

\* the path of the last call as text, made absolute
Given == IF last.path.abs THEN last.path.comps ELSE Cwd \o last.path.comps

Mutating == {"write_file", "create_directory", "delete_path"}

\* C1: a requested path whose canonical form is neither an allowed root nor a
\* descendant of one is rejected by _validate_path with the path-violation error,
\* also when it is textually under a root and leaves it through links, and also
\* when it is a sibling whose name starts with the root's name.
C1_OutsideRejected ==
    (last.op = "validate" /\ ~Inside(Canonical)) => last.err = "PathViolation"

\* a path textually under the root /r, leaving it through a chain of two links,
\* was rejected
C1_Witness ==
    /\ last.op = "validate"
    /\ last.path = P(<<"r", "c">>)
    /\ IsLink(pre, <<"r", "c">>) /\ IsLink(pre, <<"r", "l">>)
    /\ ~Inside(Canonical)
    /\ last.err = "PathViolation"

\* C2: whatever calls were made, every file and directory outside the allowed
\* roots exists exactly as at the start, with the same content.
C2_OutsideUnchanged ==
    \A p \in DOMAIN fs \cup DOMAIN InitFs :
        ~Inside(p) => (p \in DOMAIN fs /\ p \in DOMAIN InitFs /\ fs[p] = InitFs[p])

\* after a call that changed the filesystem, a mutating call on a path that is
\* textually under /r and resolves outside the roots was made
C2_Witness ==
    /\ pre # InitFs
    /\ last.op \in Mutating
    /\ ~read_only
    /\ IsPrefix(<<"r">>, Given)
    /\ ~Inside(Canonical)

\* C4: in read-only mode every write_file, create_directory and delete_path
\* call fails, and the filesystem is the initial one after any calls.
C4_ReadOnlyFrozen ==
    read_only => /\ fs = InitFs
                 /\ last.op \in Mutating => last.err = "ReadOnly"

\* in read-only mode, a write to a new file under an allowed root has failed
C4_Witness ==
    /\ read_only
    /\ calls = MaxCalls
    /\ last.op = "write_file"
    /\ last.path = P(<<"r", "n", "h">>)
    /\ last.err = "ReadOnly"

\* C8: for a path whose canonical form is under an allowed root, _validate_path
\* succeeds, and validating the path it returns succeeds and returns that path.
C8_FixedPoint ==
    (last.op = "validate" /\ Inside(Canonical)) =>
        /\ last.err = "ok"
        /\ last.again = Ok(last.canon)

\* a path that reaches a file under /r through a link was validated, and the
\* path returned is not the path given
C8_Witness ==
    /\ last.op = "validate"
    /\ last.path = P(<<"r", "j", "g">>)
    /\ last.err = "ok"
    /\ last.canon = <<"r", "d", "g">>
    /\ last.again = Ok(<<"r", "d", "g">>)

\* the last call was a search_files that returned
Searched == last.op = "search_files" /\ last.err = "ok"

\* the candidate files of the last search
Examined == Candidates(pre, Canonical, last.max_results)

\* search_file opens the file: it exists and is within the size limit
Opens(p) == IsFile(pre, p) /\ EncodedSize(Stat(pre, p).content) <= MaxFileSizeBytes

\* C3: every file that search_files opens, and every file whose lines it
\* returns, has its canonical path inside an allowed root, also when a link
\* under the search root leads to a file outside the roots.
C3_SearchInsideRoots ==
    Searched =>
        /\ \A i \in 1..Len(Examined) :
               Opens(Examined[i]) => Inside(JoinRealPath(pre, <<>>, Examined[i]))
        /\ \A i \in 1..Len(last.entries) :
               Inside(JoinRealPath(pre, <<>>, last.entries[i].path))

\* C5: a successful write_file(path, content) directly followed by
\* read_file(path) returns exactly the content written.
C5_RoundTrip ==
    [][(/\ last.op = "write_file" /\ last.err = "ok"
        /\ last'.op = "read_file" /\ last'.path = last.path)
       => (last'.err = "ok" /\ last'.text = last.content)]_vars

TooLargeWrite == last.op = "write_file" /\ EncodedSize(last.content) > MaxFileSizeBytes

\* C6 as stated: a write_file whose content encodes to more than the limit
\* fails with the too-large error and leaves the filesystem as it was.
C6_Original == TooLargeWrite => (last.err = "TooLarge" /\ fs = pre)

\* C6 as amended: such a write_file fails and leaves the filesystem as it was
\* (nothing persisted, no file truncated, no directory created); the error is
\* too-large unless the policy is read-only or the path is outside the allowed
\* roots, which are reported first.
C6_TooLargeNoEffect ==
    TooLargeWrite =>
        /\ fs = pre
        /\ last.err = IF read_only THEN "ReadOnly"
                      ELSE IF ~Inside(Canonical) THEN "PathViolation"
                      ELSE "TooLarge"

\* a content of 7 characters and 14 bytes was refused for a new file whose
\* parent directory does not exist, and the directory was not created
C6_Witness ==
    /\ TooLargeWrite
    /\ Len(last.content) <= MaxFileSizeBytes
    /\ last.path = P(<<"r", "n", "h">>)
    /\ last.err = "TooLarge"
    /\ <<"r", "n">> \notin DOMAIN fs

NonEmptyDirDelete ==
    last.op = "delete_path" /\ IsDir(pre, Canonical) /\ HasEntries(pre, Canonical)

\* C7 as stated: delete_path on a directory with at least one entry fails with
\* the not-empty error and changes nothing.
C7_Original == NonEmptyDirDelete => (last.err = "NotEmpty" /\ fs = pre)

\* C7 as amended: delete_path on a directory with at least one entry fails and
\* changes nothing; the error is not-empty unless the policy is read-only or
\* the path is outside the allowed roots, which are reported first.
C7_NonEmptyKept ==
    NonEmptyDirDelete =>
        /\ fs = pre
        /\ last.err = IF read_only THEN "ReadOnly"
                      ELSE IF ~Inside(Canonical) THEN "PathViolation"
                      ELSE "NotEmpty"

\* the directory /r/d, which holds files, was refused
C7_Witness ==
    /\ NonEmptyDirDelete
    /\ last.path = P(<<"r", "d">>)
    /\ last.err = "NotEmpty"
    /\ <<"r", "d", "g">> \in DOMAIN fs

\* the text and the lines of a file as search_file reads them (nothing to read
\* where the path leads to no file)
FileText(p) == IF IsFile(pre, p) THEN TextRead(Stat(pre, p).content) ELSE <<>>
FileLines(p) == SplitLines(FileText(p))

\* the pattern of the last search occurs in the text, case-insensitively
Has(text) == Contains(Lower(text), Lower(last.pattern))

\* the result of the last search has an entry for file p with a match on line l
HasMatch(p, l) ==
    \E i \in 1..Len(last.entries) :
        /\ last.entries[i].path = p
        /\ \E k \in 1..Len(last.entries[i].matches) : last.entries[i].matches[k].line = l

\* the regular files below the search root
FilesBelow == { p \in DOMAIN pre : pre[p].kind = "file" /\ IsPrefix(Canonical, p) /\ p # Canonical }

\* C9 as stated, for a search with the default max_results: for every file
\* under the search root and every line of it in which the pattern occurs, the
\* result has an entry for the file with a match on that line.
C9_Original ==
    (Searched /\ last.max_results = 100) =>
        \A p \in FilesBelow : \A l \in 1..Len(FileLines(p)) :
            Contains(FileLines(p)[l], last.pattern) => HasMatch(p, l)

\* search_file can read the file: it is within the size limit and decodable
Scannable(p) == Opens(p) /\ Decodable(Stat(pre, p).content)

\* C9 as amended: for every candidate file (the first 2 * max_results files in
\* enumeration order) that is within the size limit and decodable, and every
\* line l of it that contains the pattern case-insensitively: if fewer than
\* max_results candidates that contain the pattern precede the file, and fewer
\* than 5 lines that contain the pattern precede l, the result has an entry
\* for the file with a match on line l.
C9_CompleteWithinCaps ==
    Searched =>
        \A i \in 1..Len(Examined) : \A l \in 1..Len(FileLines(Examined[i])) :
            (/\ Scannable(Examined[i])
             /\ Has(FileLines(Examined[i])[l])
             /\ Cardinality({j \in 1..(i - 1) :
                                Scannable(Examined[j]) /\ Has(FileText(Examined[j]))})
                    < last.max_results
             /\ Cardinality({k \in 1..(l - 1) : Has(FileLines(Examined[i])[k])}) < MatchLimit)
            => HasMatch(Examined[i], l)

\* a search of /r for "A" returned entries for /r/f and for /r/d/g, the file
\* with six matching lines, with matches on its lines 1 and 5 and none on line 6
C9_Witness ==
    /\ Searched
    /\ last.path = P(<<"r">>) /\ last.pattern = <<"A">> /\ last.max_results = 100
    /\ HasMatch(<<"r", "f">>, 2)
    /\ HasMatch(<<"r", "d", "g">>, 1) /\ HasMatch(<<"r", "d", "g">>, 5)
    /\ ~HasMatch(<<"r", "d", "g">>, 6)

\* the files the walk of the search root reports: regular files and links to them
WalkedFiles == { p \in DOMAIN pre : IsPrefix(Canonical, p) /\ p # Canonical /\ IsFile(pre, p) }

\* the match entries of entry e name lines of the file that contain the
\* pattern, and their texts are taken from those lines
MatchesSound(e) ==
    \A k \in 1..Len(e.matches) :
        /\ e.matches[k].line \in 1..Len(FileLines(e.path))
        /\ Has(FileLines(e.path)[e.matches[k].line])
        /\ Contains(FileLines(e.path)[e.matches[k].line], e.matches[k].text)

\* C10 as stated: when no file under the root contains the pattern the result
\* is empty, and every entry is a file that contains the pattern, has at least
\* one match entry, and each match entry names a line that contains the pattern.
C10_Original ==
    Searched =>
        /\ (\A p \in WalkedFiles : ~Has(FileText(p))) => last.entries = <<>>
        /\ \A i \in 1..Len(last.entries) :
               /\ Has(FileText(last.entries[i].path))
               /\ Len(last.entries[i].matches) >= 1
               /\ MatchesSound(last.entries[i])

\* C10 as amended: the same, but an entry has at least one match entry only
\* when some single line of the file contains the pattern; a pattern that is in
\* the file and in no line of it (it spans a line break) gives an entry with no
\* match entries.
C10_Sound ==
    Searched =>
        /\ (\A p \in WalkedFiles : ~Has(FileText(p))) => last.entries = <<>>
        /\ \A i \in 1..Len(last.entries) :
               /\ Has(FileText(last.entries[i].path))
               /\ Len(last.entries[i].matches) >= 1
                    <=> \E l \in 1..Len(FileLines(last.entries[i].path)) :
                            Has(FileLines(last.entries[i].path)[l])
               /\ MatchesSound(last.entries[i])

\* a search of /r/d returned the file with six matching lines, with five matches
C10_Witness ==
    /\ Searched
    /\ last.path = P(<<"r", "d">>) /\ last.pattern = <<"A">>
    /\ Len(last.entries) = 1
    /\ last.entries[1].path = <<"r", "d", "g">>
    /\ Len(last.entries[1].matches) = MatchLimit

\* C11: search_files returns at most max_results file entries for every integer
\* max_results the caller passes; for 0 and for negative values the result is
\* empty.
C11_AtMostMaxResults ==
    Searched => Len(last.entries) <= (IF last.max_results > 0 THEN last.max_results ELSE 0)

\* the last request was a tools/call of this tool, with params
Requested(tool) ==
    request.method = "tools/call" /\ request.has_params /\ request.name = tool

\* C12: a tools/call of search_files whose arguments hold max_results: m
\* returns at most m file entries; when the argument is absent the call
\* returns what search_files returns with the default of 100.
C12_MaxResultsHonoured ==
    (Requested("search_files") /\ ~response.result.none) =>
        IF "max_results" \in request.keys
        THEN Len(response.result.entries) <= request.arguments.max_results
        ELSE response.result.entries =
                 SearchFiles(pre, allowed_dirs, request.arguments.path,
                             request.arguments.pattern, DefaultMaxResults).entries

\* read_file can read the path of the last request: a file under an allowed
\* root, within the size limit
Readable == ReadFile(pre, allowed_dirs, request.arguments.path).err = "ok"

\* C13: a tools/call of read_file_filtered on a readable file under an allowed
\* root succeeds: the response carries a result (the lines that the filters
\* keep) and no error.
C13_FilteredReadSucceeds ==
    (Requested("read_file_filtered") /\ "path" \in request.keys /\ Readable) =>
        (~response.result.none /\ response.error.none)

\* the content of the file that the last call's path leads to
Bytes == Stat(pre, Canonical).content

\* the outcome of a read_file apart from the text: which failure, or none
ReadOutcome ==
    IF Stat(pre, Canonical).kind = "none" THEN "NotFound"
    ELSE IF Stat(pre, Canonical).kind # "file" THEN "NotAFile"
    ELSE IF EncodedSize(Bytes) > MaxFileSizeBytes THEN "TooLarge"
    ELSE "ok"

\* C14: read_file on a path inside an allowed root fails not-found if the path
\* does not exist, not-a-file if it is no regular file, too-large if the file's
\* size is strictly greater than the limit; otherwise it returns the decoded
\* text (the characters that the file's bytes encode) or, when the bytes are no
\* valid text, a placeholder stating the byte length.  It changes nothing.
C14_ReadOutcome ==
    (last.op = "read_file" /\ Inside(Canonical)) =>
        /\ fs = pre
        /\ last.err = ReadOutcome
        /\ last.err = "ok" =>
               last.text = IF Decodable(Bytes) THEN Bytes
                           ELSE <<"[Binary file, ", ToString(EncodedSize(Bytes)), " bytes]">>

\* C14 apart from the decoded text: the failures, the placeholder for a binary
\* file, and that nothing changes
C14_Classified ==
    (last.op = "read_file" /\ Inside(Canonical)) =>
        /\ fs = pre
        /\ last.err = ReadOutcome
        /\ (last.err = "ok" /\ ~Decodable(Bytes)) =>
               last.text = <<"[Binary file, ", ToString(EncodedSize(Bytes)), " bytes]">>

\* the children of the directory of the last call whose metadata can be read
ReadableChildren ==
    { c \in DOMAIN pre : c # <<>> /\ Parent(c) = Canonical /\ Stat(pre, c).kind # "none" }

\* the entries of the last call: one per readable child, directories before
\* files, names ascending within each group
Listing ==
    /\ Len(last.entries) = Cardinality(ReadableChildren)
    /\ { last.entries[i].path : i \in 1..Len(last.entries) } = ReadableChildren
    /\ \A i \in 1..Len(last.entries) :
           /\ last.entries[i].name = Last(last.entries[i].path)
           /\ (last.entries[i].type = "directory") = IsDir(pre, last.entries[i].path)
    /\ \A i, j \in 1..Len(last.entries) :
           i < j => \/ last.entries[i].type = "directory" /\ last.entries[j].type = "file"
                    \/ /\ last.entries[i].type = last.entries[j].type
                       /\ NameRank(last.entries[i].name) < NameRank(last.entries[j].name)

\* what C15 says of the last call
ListOutcome ==
    /\ fs = pre
    /\ IF Stat(pre, Canonical).kind = "none" THEN last.err = "NotFound"
       ELSE IF ~IsDir(pre, Canonical) THEN last.err = "NotADirectory"
       ELSE last.err = "ok" /\ Listing

\* C15 as stated: list_directory on an existing directory returns exactly one
\* entry per child whose metadata can be read, directories before files and by
\* name ascending within each group; it fails not-found for a missing path and
\* not-a-directory for a non-directory.
C15_Original == last.op = "list_directory" => ListOutcome

\* C15 as amended: the same for every path whose canonical form is inside an
\* allowed root; a path outside the roots fails with the path-violation error,
\* whatever it leads to.
C15_ListOutcome ==
    last.op = "list_directory" =>
        IF Inside(Canonical) THEN ListOutcome
        ELSE last.err = "PathViolation" /\ fs = pre

\* the listing of /r: its six directories (two of them links to directories)
\* come first, its four files follow, both groups by name and neither in the
\* order of the directory scan; the link /r/u, which leads nowhere, is left out
C15_Witness ==
    /\ last.op = "list_directory" /\ last.path = P(<<"r">>) /\ last.err = "ok"
    /\ pre = InitFs
    /\ [i \in 1..Len(last.entries) |-> last.entries[i].name]
           = <<"d", "e", "j", "k", "o", "w", "b", "c", "f", "l">>
    /\ IsLink(pre, <<"r", "u">>)

\* the path of the last call and its ancestors, as far as they did not exist
MissingDirs == { Take(Canonical, k) : k \in 1..Len(Canonical) } \ DOMAIN pre

\* an ancestor of the path of the last call existed and was no directory
AncestorNoDir ==
    \E k \in 0..(Len(Canonical) - 1) :
        Take(Canonical, k) \in DOMAIN pre /\ pre[Take(Canonical, k)].kind # "dir"

\* the path of the last call existed, as a file or as a directory
Existed == Stat(pre, Canonical).kind # "none"

\* the filesystem is the one before the call with the missing directories added
CreatedMissingDirs ==
    fs = [p \in DOMAIN pre \cup MissingDirs |-> IF p \in DOMAIN pre THEN pre[p] ELSE Dir]

\* C16 as stated: create_directory on a path that already exists fails with
\* already-exists and leaves the filesystem unchanged; on a non-existing path
\* under an allowed root, in non-read-only mode, it creates that directory and
\* every missing ancestor and changes nothing else.
C16_Original ==
    last.op = "create_directory" =>
        /\ Existed => (last.err = "AlreadyExists" /\ fs = pre)
        /\ (~Existed /\ Inside(Canonical) /\ ~read_only) =>
               (last.err = "ok" /\ CreatedMissingDirs)

\* C16 as amended: in read-only mode create_directory fails with the read-only
\* error and on a path outside the allowed roots with the path-violation error,
\* whether the path exists or not; otherwise it fails with already-exists on a
\* path that exists, fails on a path below a regular file, and else creates
\* the directory and every missing ancestor.  Every failure leaves the
\* filesystem unchanged and a success changes nothing else.
C16_CreateOutcome ==
    last.op = "create_directory" =>
        IF read_only THEN last.err = "ReadOnly" /\ fs = pre
        ELSE IF ~Inside(Canonical) THEN last.err = "PathViolation" /\ fs = pre
        ELSE IF Existed THEN last.err = "AlreadyExists" /\ fs = pre
        ELSE IF AncestorNoDir THEN last.err = "OSError" /\ fs = pre
        ELSE last.err = "ok" /\ CreatedMissingDirs

\* /r/n/h was created together with its missing parent /r/n
C16_Witness ==
    /\ last.op = "create_directory" /\ last.path = P(<<"r", "n", "h">>) /\ last.err = "ok"
    /\ MissingDirs = {<<"r", "n">>, <<"r", "n", "h">>}
    /\ IsDir(fs, <<"r", "n">>) /\ IsDir(fs, <<"r", "n", "h">>)

\* the scans in flight: the tasks that have begun and have not ended
InFlight ==
    IF scans.phase # "gather" THEN 0
    ELSE Cardinality({ i \in 1..Len(scans.tasks) : scans.state[i] \in {"opening", "reading"} })

\* the files that the scans hold open
OpenFiles ==
    IF scans.phase # "gather" THEN 0
    ELSE Cardinality({ i \in 1..Len(scans.tasks) : scans.state[i] = "reading" })

\* C17: during one search_files call the number of file scans in flight at the
\* same time never exceeds the worker limit, a number fixed independently of
\* max_results, however many candidate files there are.
C17_WorkerLimit == InFlight <= WorkerLimit /\ OpenFiles <= WorkerLimit

\* both write_file calls have completed successfully, on the same file
BothWrote ==
    /\ \A w \in Writers : writers[w].pc = "done"
    /\ writers[1].file_path = writers[2].file_path

\* the call whose write was the last
LastWriter == CHOOSE w \in Writers : \A x \in Writers : writers[x].stamp <= writers[w].stamp

\* C18: when two write_file calls to the same path run at the same time and
\* both complete successfully, the final content of the file is the content of
\* the call that wrote last, never a mixture of bytes from both, for every
\* interleaving of their open/truncate and write steps.
C18_LastWriteWins ==
    BothWrote =>
        fs[writers[1].file_path].content = TextWrite(writers[LastWriter].content)

\* the methods that handle_mcp_request knows
KnownMethods == {"initialize", "tools/list", "tools/call"}

\* what the try block of the handler does with the last request
Tried == TryBlock(pre, read_only, allowed_dirs, env, request)

\* the last request is a call of a file tool with its path, and the tool fails
\* with this error
FileToolFails(tool, err) ==
    /\ Requested(tool) /\ "path" \in request.keys
    /\ ~(read_only /\ tool \in Mutating)
    /\ err # "ok"

\* C19: for every request handle_mcp_request returns a response, no exception
\* escapes it; the response carries the request's id and exactly one of result
\* and error; an unknown method yields the error code -32601 and every failure
\* of a known method (params missing, an argument missing, an unknown tool, an
\* operation that raises) the error code -32603 with the failure's message.
C19_AlwaysOneResponse ==
    calls > 0 =>
        /\ ~response.escaped
        /\ response.id = request.id
        /\ response.result.none # response.error.none
        /\ request.method \notin KnownMethods =>
               (~response.error.none /\ response.error.code = -32601)
        /\ (request.method \in KnownMethods /\ Tried.raised) =>
               /\ ~response.error.none
               /\ response.error.code = -32603
               /\ response.error.message = Tried.message
        /\ (request.method \in KnownMethods /\ ~Tried.raised) => ~response.result.none
        /\ (request.method = "tools/call" /\ ~request.has_params) => ~response.error.none
        /\ \A err \in {ReadFile(pre, allowed_dirs, request.arguments.path).err} :
               FileToolFails("read_file", err) => response.error.message = err
        /\ \A err \in {DeletePath(pre, read_only, allowed_dirs, request.arguments.path).err} :
               FileToolFails("delete_path", err) => response.error.message = err

\* a tools/call without params, after another request, was answered with the
\* error -32603 and the message of the AttributeError, under the request's id
C19_Witness ==
    /\ calls = MaxCalls
    /\ request.method = "tools/call" /\ ~request.has_params /\ request.id = 2
    /\ response.id = 2
    /\ response.result.none
    /\ response.error.code = -32603
    /\ response.error.message = "'NoneType' object has no attribute 'get'"

\* the subcommands of ha that the allow-list names, each as a word
SafeSubcommands == { Split(allowed_commands[i])[2] : i \in 1..Len(allowed_commands) }

\* the words are an invocation of ha with one of these subcommands
SafeInvocation(words) ==
    Len(words) >= 2 /\ words[1] = <<"ha">> /\ words[2] \in SafeSubcommands

\* C20: a command string that is not an invocation of one of the listed ha
\* subcommands is rejected before anything is run; for every command string
\* that is accepted, whatever is executed, by the Supervisor translation or by
\* the shell, is an invocation of one of those ha subcommands.
C20_OnlyAllowListed ==
    (Requested("execute_ha_cli") /\ "command" \in request.keys) =>
        /\ ~SafeInvocation(Split(request.arguments.command)) =>
               (~response.error.none /\ ran = <<>>)
        /\ \A i \in 1..Len(ran) : SafeInvocation(ran[i].words)

\* the file operations of FileHandler
FileOperations ==
    {"list_directory", "read_file", "write_file", "create_directory", "delete_path",
     "search_files"}

\* C21: for each of list, read, write, create_directory, delete_path and
\* search, and in every mode (read-only included), a call on a path outside
\* all allowed roots fails with the path-violation error and with no other.
C21_PathViolationFirst ==
    (last.op \in FileOperations /\ ~Inside(Canonical)) => last.err = "PathViolation"

\* C21 for the modes and operations in which it holds: every operation when
\* the mode is not read-only, and list, read and search in read-only mode too
C21_UnlessReadOnly ==
    (/\ last.op \in FileOperations
     /\ ~Inside(Canonical)
     /\ ~(read_only /\ last.op \in Mutating)) => last.err = "PathViolation"


\* all the files below the searched directory, in the order os.walk yields them
Enumeration ==
    LET dirs == WalkDirs(pre, Canonical)
    IN  Flatten([i \in 1..Len(dirs) |-> WalkFiles(pre, dirs[i])])

\* C22: one search_files call examines at most 2 * max_results candidate
\* files, and they are the first files of the enumeration.
C22_AtMostTwiceMaxResults ==
    Searched =>
        /\ Len(Examined) <= 2 * last.max_results
        /\ IsPrefix(Examined, Enumeration)

\* C22 for the values of max_results that are not negative
C22_NonNegative ==
    (Searched /\ last.max_results >= 0) =>
        /\ Len(Examined) <= 2 * last.max_results
        /\ IsPrefix(Examined, Enumeration)


\* the numbers of the lines of file p that contain the pattern
MatchingLines(p) == { l \in 1..Len(FileLines(p)) : Has(FileLines(p)[l]) }

\* line l is the k-th of the lines of file p that contain the pattern
IsKthMatch(p, l, k) ==
    l \in MatchingLines(p) /\ Cardinality({ j \in MatchingLines(p) : j < l }) = k - 1

\* the trimmed line, cut to the excerpt length
IsExcerpt(text, line) ==
    /\ IsPrefix(text, Strip(line))
    /\ Len(text) = (IF Len(Strip(line)) < ExcerptLen THEN Len(Strip(line)) ELSE ExcerptLen)

\* C23: every entry of a search result has at most 5 match entries; the k-th
\* is the k-th line of the file that contains the pattern, numbered from 1
\* (so the numbers increase strictly and no line after the fifth match is
\* reported), and its text is the trimmed line cut to the excerpt length.
C23_FirstFiveMatches ==
    Searched =>
        \A i \in 1..Len(last.entries) :
            LET e == last.entries[i]
                n == Cardinality(MatchingLines(e.path))
            IN  /\ Len(e.matches) <= MatchLimit
                /\ Len(e.matches) = (IF n < MatchLimit THEN n ELSE MatchLimit)
                /\ \A k \in 1..Len(e.matches) :
                       /\ IsKthMatch(e.path, e.matches[k].line, k)
                       /\ IsExcerpt(e.matches[k].text, FileLines(e.path)[e.matches[k].line])
                /\ \A k \in 1..(Len(e.matches) - 1) : e.matches[k].line < e.matches[k + 1].line

\* a search returned the file with six matching lines with matches on its
\* lines 1 to 5 only, and a file whose line " Abbb " is returned as "Abb"
C23_Witness ==
    /\ Searched
    /\ \E i \in 1..Len(last.entries) :
           /\ last.entries[i].path = <<"r", "d", "g">>
           /\ Cardinality(MatchingLines(<<"r", "d", "g">>)) > MatchLimit
           /\ [k \in 1..Len(last.entries[i].matches) |-> last.entries[i].matches[k].line]
                  = <<1, 2, 3, 4, 5>>
    /\ \E i \in 1..Len(last.entries) :
           /\ last.entries[i].path = <<"r", "w", "b">>
           /\ last.entries[i].matches = <<[line |-> 1, text |-> <<"A", "b", "b">>]>>
           /\ Len(Strip(FileLines(<<"r", "w", "b">>)[1])) > ExcerptLen


\* search_file skips candidate p: it is over the size limit, cannot be read
\* (the link leads nowhere) or cannot be decoded
Skipped(p) == ~Scannable(p)

\* the entries of the files in set ps, in the order of the result
EntriesOf(entries, ps) == SelectSeq(entries, LAMBDA e : e.path \in ps)

\* the candidates of the last search as a set
ExaminedSet == { Examined[i] : i \in 1..Len(Examined) }

\* C24: a candidate that is over the size limit, unreadable or undecodable is
\* skipped: the search succeeds (it is not failed by the file), the result has
\* no entry for the skipped file, and the entries of the other candidates are
\* those of the same search in a tree without the skipped file.
C24_SkippedFilesLeaveNoTrace ==
    (last.op = "search_files" /\ last.err \notin {"PathViolation", "NotFound"}) =>
        \A i \in 1..Len(Examined) :
            Skipped(Examined[i]) =>
                /\ last.err = "ok"
                /\ \A k \in 1..Len(last.entries) : last.entries[k].path # Examined[i]
                /\ EntriesOf(SearchFiles(Remove(pre, Examined[i]), allowed_dirs, last.path,
                                         last.pattern, last.max_results).entries,
                             ExaminedSet)
                       = last.entries

\* a search of /r examined an undecodable file, a link that leads nowhere and
\* a file over the size limit, and returned entries of other files
C24_Witness ==
    /\ Searched
    /\ last.entries # <<>>
    /\ {<<"r", "b">>, <<"r", "u">>, <<"r", "d", "h">>} \subseteq ExaminedSet
    /\ ~Decodable(Stat(pre, <<"r", "b">>).content)
    /\ Stat(pre, <<"r", "u">>).kind = "none"
    /\ EncodedSize(Stat(pre, <<"r", "d", "h">>).content) > MaxFileSizeBytes


\* the directories below the searched one, that one included
DirsBelow(top) == { p \in DOMAIN fs : IsPrefix(top, p) /\ fs[p].kind = "dir" }

\* the directory that a yielded path names
RealDir(p) == JoinRealPath(fs, <<>>, p)

\* os.walk has yielded no directory twice, and no more than there are
NoRevisit ==
    scans.phase \in {"walk", "scan", "returned"} =>
        /\ \A i, j \in 1..Len(scans.visited) :
               RealDir(scans.visited[i]) = RealDir(scans.visited[j]) => i = j
        /\ Len(scans.visited) <= Cardinality(DirsBelow(Resolve(fs, scans.path)))

\* C25: search_files terminates on every finite tree, also on one with a
\* directory link that points at an ancestor: the walk visits no directory
\* twice, and a call that has started its walk returns.
C25_WalkTerminates ==
    /\ []NoRevisit
    /\ (scans.phase \in {"walk", "scan"}) ~> (scans.phase = "returned")

\* the walk of /r is over: it has yielded /r/o, whose entry l leads back to
\* /r, once, and has not gone through the link
C25_Witness ==
    /\ scans.phase = "returned"
    /\ scans.path = P(<<"r">>)
    /\ IsLink(fs, <<"r", "o", "l">>) /\ RealDir(<<"r", "o", "l">>) = <<"r">>
    /\ Cardinality({ i \in 1..Len(scans.visited) : scans.visited[i] = <<"r", "o">> }) = 1
    /\ \A i \in 1..Len(scans.visited) : ~IsPrefix(<<"r", "o", "l">>, scans.visited[i])

\* the stepwise walk returns what search_files returns
WalkAgrees ==
    scans.phase = "returned" =>
        scans.results = SearchFiles(fs, allowed_dirs, scans.path, scans.pattern,
                                    scans.max_results).entries


\* the endpoint has answered a batch body
BatchReplied == batch.phase = "replied" /\ batch.body.list

\* the reply holds this response
InReply(resp) == \E k \in 1..Len(batch.reply.responses) : batch.reply.responses[k] = resp

\* C26: for a batch body of n requests the endpoint returns n responses, the
\* i-th answering the i-th request; and the reply to a batch holds the
\* response of every request of the batch that was executed, also when a later
\* element of the batch is malformed.
C26_BatchAnswered ==
    BatchReplied =>
        /\ (\A i \in 1..Len(batch.body.elems) : batch.body.elems[i].valid) =>
               /\ batch.reply.kind = "list"
               /\ Len(batch.reply.responses) = Len(batch.body.elems)
               /\ \A i \in 1..Len(batch.body.elems) :
                      batch.reply.responses[i].id = batch.body.elems[i].req.id
        /\ \A i \in 1..Len(batch.responses) : InReply(batch.responses[i])

\* C26 for the batches whose elements are all requests
C26_WellFormedBatches ==
    (BatchReplied /\ \A i \in 1..Len(batch.body.elems) : batch.body.elems[i].valid) =>
        /\ batch.reply.kind = "list"
        /\ batch.reply.responses = batch.responses
        /\ Len(batch.reply.responses) = Len(batch.body.elems)
        /\ \A i \in 1..Len(batch.body.elems) :
               batch.reply.responses[i].id = batch.body.elems[i].req.id

\* a batch whose first request wrote a file was answered with the parse error
C26_EffectUnanswered ==
    /\ BatchReplied
    /\ batch.reply = ParseError
    /\ batch.responses # <<>>
    /\ batch.responses[1].error.none
    /\ fs # pre

====
